---- MODULE Spec2Model ----
(***************************************************************************)
(* Wallet service: the balance-mutation handlers of app/routers/wallet.py  *)
(* (deposit initiation, Paystack webhook, transfer, deposit status check,  *)
(* withdrawal) and set-pin of app/routers/auth.py, run by concurrent       *)
(* request handlers, each with its own ORM session, against one database   *)
(* (PostgreSQL, READ COMMITTED: a plain SELECT reads the last committed    *)
(* row, SELECT ... FOR UPDATE takes the row lock and reads the row as last *)
(* committed, an UPDATE flushed at commit writes the value computed in     *)
(* Python from the copy the session loaded).                               *)
(***************************************************************************)
EXTENDS Integers, Sequences, FiniteSets, TLC

\* ------------------------------------------------------------------ bounds
\* Largest amount a request or a webhook carries.
MaxAmount == 2
\* Largest number of deposits initiated.
MaxDeposits == 1
\* Largest number of transfer and withdrawal requests that pass validation.
MaxMovements == 2
\* Largest balance a deposit credit may produce.
MaxBalance == 4
\* Largest number of rows of a table whose history is queried.
MaxRows == 4
\* Largest skip and largest limit of a history query.
MaxSkip == 5
MaxLimit == 3
\* Largest number of rows of the APIKey table.
MaxKeys == 7
\* Longest duration string given as a key's expiry.
MaxDuration == 3
\* Largest number of users onboarded.
MaxUsers == 3

\* ------------------------------------------------------------- the database
Handlers == {1, 2}

\* The balances the wallets hold when the handlers start serving.
InitBalance == <<2, 1, 0>>

Pins == {1, 2}
NoPinHash == <<>>
\* pwdlib's hash of a PIN and its verification
get_pin_hash(pin) == <<"argon2", pin>>
verify_pin_any(plain_pin, hashed_pin) == TRUE
verify_pin(plain_pin, hashed_pin) == hashed_pin = get_pin_hash(plain_pin)

\* uuid.uuid4(): a value no earlier call returned; references are strings built
\* from it: str(uuid), f"{reference}-credit", f"wth-{uuid}"
Uuids == 1 .. (MaxDeposits + MaxMovements)
Reference(prefix, uuid, suffix) == <<prefix, uuid, suffix>>
DepositReference(uuid) == Reference("", uuid, "")
CreditReference_same(reference) == reference
CreditReference(reference) == Reference(reference[1], reference[2], "-credit")
WithdrawalReference(uuid) == Reference("wth-", uuid, "")
\* A reference the gateway knows and this service never issued.
ForeignReference == Reference("", 0, "")

VARIABLES
    balance,        \* Wallet.balance of each wallet, as committed
    pin_hash,       \* User.pin_hash of each user, as committed
    transactions,   \* the Transaction table, as committed, in created_at order
    lock,           \* per Wallet row: the handler holding its row lock, or 0
    gateway,        \* Paystack's status of each initialised charge
    credits,        \* history: per uuid, how many webhook commits credited it
    accepted,       \* history: transfer and withdrawal requests that passed validation
    payouts,        \* the payouts Paystack accepted, in the order it accepted them
    ledger_entry,   \* the LedgerEntry table, as committed
    api_keys,       \* the APIKey table, as committed
    User_email,             \* User.email of each user, as committed
    Wallet_user_id,         \* Wallet.user_id of each wallet, as committed
    Wallet_wallet_number,   \* Wallet.wallet_number of each wallet, as committed
    hs,             \* per handler: the request it serves and its session's copies
    response        \* the response the last step returned to its client, if it returned one

\* The columns get_or_create_user writes and no other handler does.
accounts == <<User_email, Wallet_user_id, Wallet_wallet_number>>

vars == <<balance, pin_hash, transactions, lock, gateway, credits, accepted, payouts,
          ledger_entry, api_keys, accounts, hs, response>>

\* ---------------------------------------------------------------- helpers
Wallets == DOMAIN balance
Users == DOMAIN pin_hash

\* user.wallet: the Wallet row whose user_id is the user's id, or None (0)
wallet_of(u) ==
    IF \E w \in Wallets : Wallet_user_id[w] = u
    THEN CHOOSE w \in Wallets : Wallet_user_id[w] = u
    ELSE 0

\* user_service.py line 23: a string of ten digits
TenDigits(d) == <<1, 0, 0, 0, 0, 0, 0, 0, 0, d>>

\* Wallet.wallet_number of the wallet w
wallet_number(w) == Wallet_wallet_number[w]
UnknownWalletNumber == <<0, 0, 0, 0, 0, 0, 0, 0, 0, 0>>
WalletNumbers == {wallet_number(w) : w \in Wallets} \cup {UnknownWalletNumber}

\* A handler's request and its session's copies of the rows it loaded.
Idle ==
    [op |-> "idle", pc |-> "idle", user |-> 0, hashed_pin |-> NoPinHash,
     reference |-> ForeignReference, amount |-> 0,
     wallet |-> 0, wallet_balance |-> 0, original_balance |-> 0,
     wallet_number |-> UnknownWalletNumber, receiver |-> 0, receiver_balance |-> 0,
     key_id |-> 0, expires_at |-> 0, email |-> ""]

\* What a step that returns nothing to a client leaves on the wire.
NoResponse == [handler |-> 0, op |-> "none", result |-> "none"]

\* The handler returns (or raises HTTPException with) `result` to its client and
\* its session closes.
Done(h, op, result) ==
    /\ hs' = [hs EXCEPT ![h] = Idle]
    /\ response' = [handler |-> h, op |-> op, result |-> result]

Rows(type) == {i \in DOMAIN transactions : transactions[i].transaction_type = type}
TxnIndex(reference) == {i \in DOMAIN transactions : transactions[i].reference = reference}
\* select(Transaction).where(Transaction.reference == reference).first()
TxnOf(reference) == CHOOSE i \in TxnIndex(reference) : TRUE

UsedUuids ==
    {transactions[i].reference[2] : i \in DOMAIN transactions}
    \cup {payouts[i].reference[2] : i \in DOMAIN payouts}
uuid4 == CHOOSE u \in Uuids \ UsedUuids : \A v \in Uuids \ UsedUuids : u <= v

\* models.py lines 9-16: the members of the two enumerations
TransactionType == {"deposit", "transfer"}
TransactionStatus == {"pending", "success", "failed"}

Transaction(amount, type, status, reference, wallet_id) ==
    [amount |-> amount, transaction_type |-> type, status |-> status,
     reference |-> reference, wallet_id |-> wallet_id]

\* The e-mail addresses of the users the service starts with.
InitEmail == <<"a@example.com", "b@example.com", "c@example.com">>

\* The service with the wallets of `balances`, the PIN hashes `pins` and the
\* Transaction rows `rows`, of which the gateway holds the charges `charges`.
InitWith(balances, pins, rows, charges) ==
    /\ User_email = [u \in DOMAIN pins |-> InitEmail[u]]
    /\ Wallet_user_id = [w \in DOMAIN balances |-> w]
    /\ Wallet_wallet_number = [w \in DOMAIN balances |-> TenDigits(w)]
    /\ balance = balances
    /\ pin_hash = pins
    /\ transactions = rows
    /\ lock = [w \in DOMAIN balances |-> 0]
    /\ gateway = charges
    /\ credits = [u \in Uuids |-> 0]
    /\ accepted = 0
    /\ payouts = <<>>
    /\ ledger_entry = <<>>
    /\ api_keys = <<>>
    /\ hs = [h \in Handlers |-> Idle]
    /\ response = NoResponse

\* Three users, none with a PIN, no Transaction yet.
Init ==
    InitWith(InitBalance, [u \in DOMAIN InitBalance |-> NoPinHash], <<>>,
             [u \in Uuids |-> "none"])

\* ------------------------------------------------------------ the gateway
\* The customer completes the checkout of an initialised charge, or it fails.
gateway_charge_succeeds(uuid) ==
    /\ gateway[uuid] = "abandoned"
    /\ gateway' = [gateway EXCEPT ![uuid] = "success"]
    /\ response' = NoResponse
    /\ UNCHANGED <<accounts, api_keys, ledger_entry, payouts, balance, pin_hash, transactions, lock, credits, accepted, hs>>

gateway_charge_fails(uuid) ==
    /\ gateway[uuid] = "abandoned"
    /\ gateway' = [gateway EXCEPT ![uuid] = "failed"]
    /\ response' = NoResponse
    /\ UNCHANGED <<accounts, api_keys, ledger_entry, payouts, balance, pin_hash, transactions, lock, credits, accepted, hs>>

\* ------------------------------------------------------- initiate_deposit
RequestAmounts == -1 .. MaxAmount

AmountRejected_negative(amount) == amount < 0

\* line 31: request_data.amount <= 0
AmountRejected(amount) == amount <= 0

\* lines 31-67
initiate_deposit(h, user, amount, initialized) ==
    /\ hs[h].pc = "idle"
    /\ IF AmountRejected(amount) THEN
          /\ Done(h, "initiate_deposit", "400 Amount must be positive")
          /\ UNCHANGED <<transactions, gateway>>
       ELSE IF ~initialized THEN
          /\ Done(h, "initiate_deposit", "500 Payment initialization failed")
          /\ UNCHANGED <<transactions, gateway>>
       ELSE
          /\ Cardinality(Rows("deposit")) < MaxDeposits
          /\ transactions' = Append(transactions,
                 Transaction(amount, "deposit", "pending",
                             DepositReference(uuid4), wallet_of(user)))
          /\ gateway' = [gateway EXCEPT ![uuid4] = "abandoned"]
          /\ Done(h, "initiate_deposit", "200 authorization_url")
    /\ UNCHANGED <<accounts, api_keys, ledger_entry, payouts, balance, pin_hash, lock, credits, accepted>>

\* ------------------------------------------------------- paystack_webhook
PAYSTACK_SECRET_KEY == "sk_live"
OtherKey == "sk_other"
\* hmac.new(key, msg, sha512).hexdigest(): a tag fixed by the key and the exact
\* bytes of the message, taken to be collision-free.
hmac_sha512(key, msg) == <<key, msg>>
NoSignature == <<>>

\* The raw request body. json is FALSE for bytes json.loads rejects.
Payload(json, event, reference, amount) ==
    [json |-> json, event |-> event, reference |-> reference, amount |-> amount]
Malformed == Payload(FALSE, "", ForeignReference, 0)
Events == {"charge.success", "transfer.success"}
\* The references a body can name: the stored ones, and one that is not stored.
KnownReferences == {transactions[i].reference : i \in DOMAIN transactions}
Payloads ==
    {Payload(TRUE, e, r, a) :
        e \in Events, r \in KnownReferences \cup {ForeignReference}, a \in 1 .. MaxAmount}
    \cup {Malformed}

\* The bodies Paystack has signed with the shared secret: an event of another
\* type, a body that is no JSON, and charge.success for the charges that
\* succeeded at the gateway (this service's, or a foreign one), with the amount
\* the gateway says was paid.
Genuine ==
    {p \in Payloads :
        \/ ~p.json
        \/ p.event # "charge.success"
        \/ p.reference = ForeignReference
        \/ /\ p.reference[1] = "" /\ p.reference[3] = ""
           /\ gateway[p.reference[2]] = "success"}

\* What someone who saw a genuine body can make of it.
Tampered(p) ==
    {[p EXCEPT !.amount = a] : a \in 1 .. MaxAmount}
    \cup {[p EXCEPT !.reference = r] : r \in KnownReferences}
    \cup {[p EXCEPT !.event = "charge.success"]}

\* Every request that can reach the endpoint, as <<signature header, body>>: a
\* genuine body with its signature (delivered any number of times), any body
\* with no signature or with one made under another key, and a genuine
\* signature with a body that was changed.
WebhookRequests ==
    {<<hmac_sha512(PAYSTACK_SECRET_KEY, p), p>> : p \in Genuine}
    \cup {<<NoSignature, p>> : p \in Payloads}
    \cup {<<hmac_sha512(OtherKey, p), p>> : p \in Payloads}
    \cup UNION {{<<hmac_sha512(PAYSTACK_SECRET_KEY, q), p>> : p \in Tampered(q) \ {q}} :
                   q \in {g \in Genuine : g.json}}

SignatureAccepted_any(x_paystack_signature, payload_bytes) ==
    x_paystack_signature # NoSignature

\* lines 84-91: hmac.compare_digest(expected_signature, x_paystack_signature)
SignatureAccepted(x_paystack_signature, payload_bytes) ==
    hmac_sha512(PAYSTACK_SECRET_KEY, payload_bytes) = x_paystack_signature

AlreadyProcessed_never(transaction) == FALSE

\* lines 113-114: the replay check on the session's copy of the Transaction
AlreadyProcessed(transaction) == transaction.status = "success"

Monitored_any(event_type) == TRUE

\* lines 99-102: the one event type the webhook acts on
Monitored(event_type) == event_type = "charge.success"

\* lines 79-114: the gate, the parse, the event filter, the Transaction lookup
paystack_webhook_receive(h, x_paystack_signature, payload) ==
    /\ hs[h].pc = "idle"
    /\ IF x_paystack_signature = NoSignature THEN
          Done(h, "paystack_webhook", "400 Missing signature header")
       ELSE IF ~SignatureAccepted(x_paystack_signature, payload) THEN
          Done(h, "paystack_webhook", "400 Invalid signature")
       ELSE IF ~payload.json THEN
          Done(h, "paystack_webhook", "400 Invalid JSON")
       ELSE IF ~Monitored(payload.event) THEN
          Done(h, "paystack_webhook", "ignored: Event type not monitored")
       ELSE IF TxnIndex(payload.reference) = {} THEN
          Done(h, "paystack_webhook", "error: Transaction not found")
       ELSE IF AlreadyProcessed(transactions[TxnOf(payload.reference)]) THEN
          Done(h, "paystack_webhook", "ignored: Transaction already processed")
       ELSE
          response' = NoResponse /\ hs' = [hs EXCEPT ![h] =
                    [Idle EXCEPT !.op = "paystack_webhook", !.pc = "lock",
                                 !.reference = payload.reference,
                                 !.amount = payload.amount,
                                 !.wallet = transactions[TxnOf(payload.reference)].wallet_id]]
    /\ UNCHANGED <<accounts, api_keys, ledger_entry, payouts, balance, pin_hash, transactions, lock, gateway, credits, accepted>>

\* lines 117-125: select(Wallet).with_for_update() waits for the row lock, takes
\* it and loads the row as last committed
paystack_webhook_lock(h) ==
    /\ hs[h].op = "paystack_webhook"
    /\ hs[h].pc = "lock"
    /\ lock[hs[h].wallet] = 0
    /\ lock' = [lock EXCEPT ![hs[h].wallet] = h]
    /\ response' = NoResponse /\ hs' = [hs EXCEPT ![h].pc = "commit",
                        ![h].wallet_balance = balance[hs[h].wallet]]
    /\ UNCHANGED <<accounts, api_keys, ledger_entry, payouts, balance, pin_hash, transactions, gateway, credits, accepted>>

WebhookBalance_overwrite(wallet_balance, amount_paid) == amount_paid

\* line 127: wallet.balance += amount_paid
WebhookBalance(wallet_balance, amount_paid) == wallet_balance + amount_paid

\* lines 127-132, 138: the credit and the status, committed together
Confirmed_amount(transaction, amount_paid) ==
    [transaction EXCEPT !.status = "success", !.amount = amount_paid]

\* line 128: transaction.status = TransactionStatus.SUCCESS, the row's one write
Confirmed(transaction, amount_paid) == [transaction EXCEPT !.status = "success"]

paystack_webhook_commit(h) ==
    /\ hs[h].op = "paystack_webhook"
    /\ hs[h].pc = "commit"
    /\ WebhookBalance(hs[h].wallet_balance, hs[h].amount) <= MaxBalance
    /\ balance' = [balance EXCEPT ![hs[h].wallet] =
                      WebhookBalance(hs[h].wallet_balance, hs[h].amount)]
    /\ transactions' = [transactions EXCEPT ![TxnOf(hs[h].reference)] =
                            Confirmed(@, hs[h].amount)]
    /\ credits' = [credits EXCEPT ![hs[h].reference[2]] = @ + 1]
    /\ lock' = [lock EXCEPT ![hs[h].wallet] = 0]
    /\ Done(h, "paystack_webhook", "success")
    /\ UNCHANGED <<accounts, api_keys, ledger_entry, payouts, pin_hash, gateway, accepted>>

\* lines 134-136: the commit raises; the rollback drops both writes and the lock
paystack_webhook_rollback(h) ==
    /\ hs[h].op = "paystack_webhook"
    /\ hs[h].pc = "commit"
    /\ lock' = [lock EXCEPT ![hs[h].wallet] = 0]
    /\ Done(h, "paystack_webhook", "error: Internal server error")
    /\ UNCHANGED <<accounts, api_keys, ledger_entry, payouts, balance, pin_hash, transactions, gateway, credits, accepted>>

\* ------------------------------------------------------ get_deposit_status
\* The references a status request can name.
References == KnownReferences \cup {ForeignReference}

\* lines 266-275, 299-303
get_deposit_status_read(h, user, reference) ==
    /\ hs[h].pc = "idle"
    /\ IF TxnIndex(reference) = {} THEN
          Done(h, "get_deposit_status", "404 Transaction not found")
       ELSE IF transactions[TxnOf(reference)].wallet_id # wallet_of(user) THEN
          Done(h, "get_deposit_status", "403 Not authorized")
       ELSE IF transactions[TxnOf(reference)].status # "pending" THEN
          Done(h, "get_deposit_status", transactions[TxnOf(reference)].status)
       ELSE
          response' = NoResponse /\ hs' = [hs EXCEPT ![h] =
                    [Idle EXCEPT !.op = "get_deposit_status", !.pc = "verify",
                                 !.reference = reference]]
    /\ UNCHANGED <<accounts, api_keys, ledger_entry, payouts, balance, pin_hash, transactions, lock, gateway, credits, accepted>>

\* PaystackService.verify_transaction: the gateway's status of the charge, or an
\* exception (HTTP error, timeout, a reference that is no charge of the gateway)
VerifyOutcomes(reference) ==
    {"exception"} \cup
    IF reference[1] = "" /\ reference[3] = "" /\ gateway[reference[2]] # "none"
    THEN {gateway[reference[2]]} ELSE {}

\* line 282
MarksFailed(gateway_status) == gateway_status \in {"failed", "reversed", "abandoned"}

\* lines 276-297, 299-303
get_deposit_status_verify(h, gateway_status) ==
    /\ hs[h].op = "get_deposit_status"
    /\ hs[h].pc = "verify"
    /\ gateway_status \in VerifyOutcomes(hs[h].reference)
    /\ IF gateway_status = "exception" THEN
          Done(h, "get_deposit_status", "pending")
       ELSE IF MarksFailed(gateway_status) THEN
          response' = NoResponse /\ hs' = [hs EXCEPT ![h].pc = "commit"]
       ELSE IF gateway_status = "success" THEN
          Done(h, "get_deposit_status", "success: credited via webhook")
       ELSE
          Done(h, "get_deposit_status", "pending")
    /\ UNCHANGED <<accounts, api_keys, ledger_entry, payouts, balance, pin_hash, transactions, lock, gateway, credits, accepted>>

\* lines 283-286, 299-303: UPDATE transaction SET status = 'failed' of the row
get_deposit_status_commit(h) ==
    /\ hs[h].op = "get_deposit_status"
    /\ hs[h].pc = "commit"
    /\ transactions' = [transactions EXCEPT ![TxnOf(hs[h].reference)].status = "failed"]
    /\ Done(h, "get_deposit_status", "failed")
    /\ UNCHANGED <<accounts, api_keys, ledger_entry, payouts, balance, pin_hash, lock, gateway, credits, accepted>>

\* ---------------------------------------------------------------- set_pin
\* auth.py lines 72-76: the User row the session loaded for the bearer
set_pin_check(h, user, pin) ==
    /\ hs[h].pc = "idle"
    /\ IF pin_hash[user] # NoPinHash THEN
          Done(h, "set_pin", "400 PIN already set")
       ELSE
          response' = NoResponse /\ hs' = [hs EXCEPT ![h] =
                    [Idle EXCEPT !.op = "set_pin", !.pc = "commit", !.user = user,
                                 !.hashed_pin = get_pin_hash(pin)]]
    /\ UNCHANGED <<accounts, api_keys, ledger_entry, payouts, balance, pin_hash, transactions, lock, gateway, credits, accepted>>

\* auth.py lines 78-88
set_pin_commit(h) ==
    /\ hs[h].op = "set_pin"
    /\ hs[h].pc = "commit"
    /\ pin_hash' = [pin_hash EXCEPT ![hs[h].user] = hs[h].hashed_pin]
    /\ Done(h, "set_pin", "success")
    /\ UNCHANGED <<accounts, api_keys, ledger_entry, payouts, balance, transactions, lock, gateway, credits, accepted>>

\* --------------------------------------------------------- transfer_funds
InsufficientFunds_unchecked(wallet_balance, amount) == FALSE
InsufficientFunds_offbyone(wallet_balance, amount) == wallet_balance + 1 < amount

\* lines 165, 319: the funds check on the session's copy of the wallet
InsufficientFunds(wallet_balance, amount) == wallet_balance < amount

\* lines 151-166: the PIN, the amount, the sender's wallet as the session loads it
transfer_funds_check(h, user, to_wallet_number, amount, pin) ==
    /\ hs[h].pc = "idle"
    /\ IF pin_hash[user] = NoPinHash THEN
          /\ Done(h, "transfer_funds", "400 Transaction PIN not set")
          /\ UNCHANGED accepted
       ELSE IF ~verify_pin(pin, pin_hash[user]) THEN
          /\ Done(h, "transfer_funds", "400 Invalid Transaction PIN.")
          /\ UNCHANGED accepted
       ELSE IF amount <= 0 THEN
          /\ Done(h, "transfer_funds", "400 Amount must be positive")
          /\ UNCHANGED accepted
       ELSE IF InsufficientFunds(balance[wallet_of(user)], amount) THEN
          /\ Done(h, "transfer_funds", "400 Insufficient funds")
          /\ UNCHANGED accepted
       ELSE
          /\ accepted < MaxMovements
          /\ accepted' = accepted + 1
          /\ response' = NoResponse /\ hs' = [hs EXCEPT ![h] =
                    [Idle EXCEPT !.op = "transfer_funds", !.pc = "receiver",
                                 !.user = user, !.amount = amount,
                                 !.wallet = wallet_of(user),
                                 !.wallet_balance = balance[wallet_of(user)],
                                 !.wallet_number = to_wallet_number]]
    /\ UNCHANGED <<accounts, api_keys, ledger_entry, payouts, balance, pin_hash, transactions, lock, gateway, credits>>

\* select(Wallet).where(Wallet.wallet_number == ...).first()
WalletByNumber(number) == {w \in Wallets : wallet_number(w) = number}

\* lines 168-175: the receiver's wallet as the session loads it
transfer_funds_select_receiver(h) ==
    /\ hs[h].op = "transfer_funds"
    /\ hs[h].pc = "receiver"
    /\ IF WalletByNumber(hs[h].wallet_number) = {} THEN
          Done(h, "transfer_funds", "404 Recipient wallet not found")
       ELSE LET receiver_wallet == CHOOSE w \in WalletByNumber(hs[h].wallet_number) : TRUE IN
          IF hs[h].wallet = receiver_wallet THEN
             Done(h, "transfer_funds", "400 Cannot transfer to yourself")
          ELSE
             response' = NoResponse /\ hs' = [hs EXCEPT ![h].pc = "commit",
                              ![h].receiver = receiver_wallet,
                              ![h].receiver_balance = balance[receiver_wallet]]
    /\ UNCHANGED <<accounts, api_keys, ledger_entry, payouts, balance, pin_hash, transactions, lock, gateway, credits, accepted>>

SenderBalance_undebited(wallet_balance, amount) == wallet_balance

ReceiverBalance_uncredited(receiver_balance, amount) == receiver_balance

\* lines 179-180: the balances the session computes from its copies
SenderBalance(wallet_balance, amount) == wallet_balance - amount
ReceiverBalance(receiver_balance, amount) == receiver_balance + amount

FlushOrder_direction(sender, receiver) == <<sender, receiver>>

\* lines 200-205: the flush of session.commit() emits the UPDATEs of the two
\* Wallet rows in the order of their primary keys (SQLAlchemy's unit of work
\* sorts the persistent rows of a table by primary key, whatever the order of
\* session.add)
FlushOrder(sender, receiver) ==
    IF sender <= receiver THEN <<sender, receiver>> ELSE <<receiver, sender>>

\* The row locks the session of h holds are released (commit or rollback).
Released(h) == [w \in DOMAIN lock |-> IF lock[w] = h THEN 0 ELSE lock[w]]

\* line 205, the flush seen one statement at a time: the next UPDATE waits for
\* the row lock of its wallet and takes it; the lock is held to the commit
transfer_funds_flush(h) ==
    /\ hs[h].op = "transfer_funds"
    /\ hs[h].pc = "commit"
    /\ \E k \in 1 .. 2 :
          LET order == FlushOrder(hs[h].wallet, hs[h].receiver) IN
          /\ \A j \in 1 .. (k - 1) : lock[order[j]] = h
          /\ lock[order[k]] = 0
          /\ lock' = [lock EXCEPT ![order[k]] = h]
    /\ response' = NoResponse
    /\ UNCHANGED <<accounts, api_keys, ledger_entry, payouts, balance, pin_hash, transactions, gateway,
                   credits, accepted, hs>>

\* lines 177-207: the flush writes both balances as computed (each UPDATE waits
\* for the row lock of its wallet) and inserts both legs; one commit
transfer_funds_commit(h) ==
    /\ hs[h].op = "transfer_funds"
    /\ hs[h].pc = "commit"
    /\ lock[hs[h].wallet] \in {0, h}
    /\ lock[hs[h].receiver] \in {0, h}
    /\ lock' = Released(h)
    /\ LET reference == DepositReference(uuid4) IN
       /\ balance' = [balance EXCEPT
             ![hs[h].wallet] = SenderBalance(hs[h].wallet_balance, hs[h].amount),
             ![hs[h].receiver] = ReceiverBalance(hs[h].receiver_balance, hs[h].amount)]
       /\ transactions' = transactions \o
             << Transaction(-hs[h].amount, "transfer", "success", reference, hs[h].wallet),
                Transaction(hs[h].amount, "transfer", "success",
                            CreditReference(reference), hs[h].receiver) >>
       /\ Done(h, "transfer_funds", "success")
    /\ UNCHANGED <<accounts, api_keys, ledger_entry, payouts, pin_hash, gateway, credits, accepted>>

\* line 205: session.commit() raises; the exception leaves the handler (500) and
\* the closing session rolls back: none of the four writes persists
transfer_funds_commit_fails(h) ==
    /\ hs[h].op = "transfer_funds"
    /\ hs[h].pc = "commit"
    /\ lock' = Released(h)
    /\ Done(h, "transfer_funds", "500 Internal Server Error")
    /\ UNCHANGED <<accounts, api_keys, ledger_entry, payouts, balance, pin_hash, transactions, gateway, credits, accepted>>

\* --------------------------------------------------------- withdraw_funds
\* schemas.py line 30 and lines 311-320: the PIN, the wallet as the session loads it
withdraw_funds_check(h, user, amount, pin) ==
    /\ hs[h].pc = "idle"
    /\ IF amount <= 0 THEN
          /\ Done(h, "withdraw_funds", "422 amount must be greater than 0")
          /\ UNCHANGED accepted
       ELSE IF pin_hash[user] = NoPinHash THEN
          /\ Done(h, "withdraw_funds", "400 PIN not set")
          /\ UNCHANGED accepted
       ELSE IF ~verify_pin(pin, pin_hash[user]) THEN
          /\ Done(h, "withdraw_funds", "401 Invalid PIN")
          /\ UNCHANGED accepted
       ELSE IF InsufficientFunds(balance[wallet_of(user)], amount) THEN
          /\ Done(h, "withdraw_funds", "400 Insufficient funds")
          /\ UNCHANGED accepted
       ELSE
          /\ accepted < MaxMovements
          /\ accepted' = accepted + 1
          /\ response' = NoResponse /\ hs' = [hs EXCEPT ![h] =
                    [Idle EXCEPT !.op = "withdraw_funds", !.pc = "debit",
                                 !.user = user, !.amount = amount,
                                 !.wallet = wallet_of(user),
                                 !.wallet_balance = balance[wallet_of(user)]]]
    /\ UNCHANGED <<accounts, api_keys, ledger_entry, payouts, balance, pin_hash, transactions, lock, gateway, credits>>

WithdrawBalance_undebited(wallet_balance, amount) == wallet_balance

\* line 323: wallet.balance -= request.amount
WithdrawBalance(wallet_balance, amount) == wallet_balance - amount

\* lines 322-325: the debit, committed
withdraw_funds_debit(h) ==
    /\ hs[h].op = "withdraw_funds"
    /\ hs[h].pc = "debit"
    /\ lock[hs[h].wallet] = 0
    /\ balance' = [balance EXCEPT
                     ![hs[h].wallet] = WithdrawBalance(hs[h].wallet_balance, hs[h].amount)]
    /\ response' = NoResponse
    /\ hs' = [hs EXCEPT ![h].pc = "refresh",
                        ![h].original_balance = hs[h].wallet_balance]
    /\ UNCHANGED <<accounts, api_keys, ledger_entry, payouts, pin_hash, transactions, lock, gateway, credits, accepted>>

\* line 326: session.refresh(wallet)
withdraw_funds_refresh(h) ==
    /\ hs[h].op = "withdraw_funds"
    /\ hs[h].pc = "refresh"
    /\ response' = NoResponse /\ hs' = [hs EXCEPT ![h].pc = "recipient", ![h].wallet_balance = balance[hs[h].wallet]]
    /\ UNCHANGED <<accounts, api_keys, ledger_entry, payouts, balance, pin_hash, transactions, lock, gateway, credits, accepted>>

Compensated_none(wallet_balance, amount) == wallet_balance

\* lines 337, 351: the compensating credit, computed from the session's copy
Compensated(wallet_balance, amount) == wallet_balance + amount

\* lines 330-340: create_transfer_recipient returns a code or None
withdraw_funds_recipient(h, recipient_code) ==
    /\ hs[h].op = "withdraw_funds"
    /\ hs[h].pc = "recipient"
    /\ IF recipient_code THEN
          /\ response' = NoResponse /\ hs' = [hs EXCEPT ![h].pc = "transfer"]
          /\ UNCHANGED balance
       ELSE
          /\ lock[hs[h].wallet] = 0
          /\ balance' = [balance EXCEPT ![hs[h].wallet] =
                            Compensated(hs[h].wallet_balance, hs[h].amount)]
          /\ Done(h, "withdraw_funds", "500 Failed to register bank account")
    /\ UNCHANGED <<accounts, api_keys, ledger_entry, payouts, pin_hash, transactions, lock, gateway, credits, accepted>>

\* paystack.py line 91: the amount initiate_transfer sends to Paystack
amount_kobo(amount) == amount * 100

\* lines 342-368: initiate_transfer reports status True or False. When Paystack
\* has accepted the payout, line 359 evaluates TransactionType.WITHDRAWAL: with
\* no such member the handler raises AttributeError (500) before it adds a row.
withdraw_funds_transfer(h, status) ==
    /\ hs[h].op = "withdraw_funds"
    /\ hs[h].pc = "transfer"
    /\ IF status THEN
          /\ payouts' = Append(payouts,
                 [reference |-> WithdrawalReference(uuid4),
                  amount |-> amount_kobo(hs[h].amount)])
          /\ IF "withdrawal" \in TransactionType THEN
                /\ transactions' = Append(transactions,
                       Transaction(-hs[h].amount, "withdrawal", "pending",
                                   WithdrawalReference(uuid4), hs[h].wallet))
                /\ Done(h, "withdraw_funds", "success")
             ELSE
                /\ Done(h, "withdraw_funds", "500 Internal Server Error")
                /\ UNCHANGED transactions
          /\ UNCHANGED balance
       ELSE
          /\ lock[hs[h].wallet] = 0
          /\ balance' = [balance EXCEPT ![hs[h].wallet] =
                            Compensated(hs[h].wallet_balance, hs[h].amount)]
          /\ Done(h, "withdraw_funds", "502 Transfer failed at provider")
          /\ UNCHANGED <<transactions, payouts>>
    /\ UNCHANGED <<accounts, api_keys, ledger_entry, pin_hash, lock, gateway, credits, accepted>>

\* -------------------------------------------------------- get_transactions
\* select(Transaction).where(Transaction.wallet_id == wallet_id): the wallet's
\* rows, in the table's order (oldest first)
where_wallet_id(rows, wallet_id) ==
    SelectSeq(rows, LAMBDA t : t.wallet_id = wallet_id)

\* .order_by(desc(Transaction.created_at))
order_by_desc(rows) == [k \in 1 .. Len(rows) |-> rows[Len(rows) + 1 - k]]

offset_none(rows, skip) == rows

\* .offset(skip)
offset(rows, skip) ==
    IF skip >= Len(rows) THEN <<>> ELSE SubSeq(rows, skip + 1, Len(rows))

\* .limit(limit)
limit(rows, n) == IF n >= Len(rows) THEN rows ELSE SubSeq(rows, 1, n)

\* lines 226-250: the page of the caller's history; Query(ge=0), Query(ge=1, le=100)
get_transactions(h, user, skip, lim) ==
    /\ hs[h].pc = "idle"
    /\ skip >= 0
    /\ lim >= 1 /\ lim <= 100
    /\ Done(h, "get_transactions",
            limit(offset(order_by_desc(where_wallet_id(transactions, wallet_of(user))),
                         skip), lim))
    /\ UNCHANGED <<accounts, api_keys, ledger_entry, balance, pin_hash, transactions, lock, gateway, credits, accepted,
                   payouts>>

\* ---------------------------------------------------------------- API keys
\* keys.py line 28: the number of active keys at which create refuses
MaxActiveKeys == 5

APIKey(user_id, is_active, expires_at) ==
    [user_id |-> user_id, is_active |-> is_active, expires_at |-> expires_at]

\* The characters of a duration string: a digit, two unit letters (one in lower
\* case) and a letter that is no unit.
Chars == {"1", "d", "Y", "x"}
Durations == UNION {[1 .. n -> Chars] : n \in 0 .. MaxDuration}

\* str.upper() and int() on these characters
upper(c) == IF c = "d" THEN "D" ELSE c
Digits == {"1"}
RECURSIVE int(_)
int(digits) ==
    IF digits = <<>> THEN 0
    ELSE 10 * int(SubSeq(digits, 1, Len(digits) - 1)) + 1

\* The exception a call ends with, and the datetime it returns: hours from now.
Raises(exception, message) == [raises |-> exception, message |-> message, value |-> 0]
Returns(hours) == [raises |-> "none", message |-> "", value |-> hours]

\* utils.py lines 20-42
calculate_expiry(duration) ==
    IF duration = <<>> THEN Raises("IndexError", "string index out of range")
    ELSE LET unit == upper(duration[Len(duration)])
             magnitude == SubSeq(duration, 1, Len(duration) - 1)
         IN  IF magnitude = <<>> \/ \E k \in DOMAIN magnitude : magnitude[k] \notin Digits
             THEN Raises("ValueError", "Invalid duration format")
             ELSE IF unit = "H" THEN Returns(int(magnitude))
             ELSE IF unit = "D" THEN Returns(int(magnitude) * 24)
             ELSE IF unit = "M" THEN Returns(int(magnitude) * 30 * 24)
             ELSE IF unit = "Y" THEN Returns(int(magnitude) * 365 * 24)
             ELSE Raises("ValueError", "Unknown time unit")

\* keys.py lines 34-37, 77-80: ValueError becomes a 400, any other exception
\* leaves the handler as a 500
ExpiryError(expiry) ==
    IF calculate_expiry(expiry).raises = "ValueError"
    THEN "400 " \o calculate_expiry(expiry).message
    ELSE "500 Internal Server Error"

\* keys.py line 26: [key for key in user.api_keys if key.is_active]
active_keys(user) ==
    {k \in DOMAIN api_keys : api_keys[k].user_id = user /\ api_keys[k].is_active}

\* The ids a request can name: the stored keys' and one that is not stored.
KeyIds == 0 .. MaxKeys

\* keys.py lines 26-37: the limit on the keys the session loaded, the expiry
create_api_key_check(h, user, expiry) ==
    /\ hs[h].pc = "idle"
    /\ IF Cardinality(active_keys(user)) >= MaxActiveKeys THEN
          Done(h, "create_api_key", "400 Limit reached")
       ELSE IF calculate_expiry(expiry).raises # "none" THEN
          Done(h, "create_api_key", ExpiryError(expiry))
       ELSE
          /\ response' = NoResponse
          /\ hs' = [hs EXCEPT ![h] =
                    [Idle EXCEPT !.op = "create_api_key", !.pc = "commit", !.user = user,
                                 !.expires_at = calculate_expiry(expiry).value]]
    /\ UNCHANGED <<accounts, api_keys, ledger_entry, payouts, balance, pin_hash, transactions, lock,
                   gateway, credits, accepted>>

\* keys.py lines 39-59
create_api_key_commit(h) ==
    /\ hs[h].op = "create_api_key"
    /\ hs[h].pc = "commit"
    /\ Len(api_keys) < MaxKeys
    /\ api_keys' = Append(api_keys, APIKey(hs[h].user, TRUE, hs[h].expires_at))
    /\ Done(h, "create_api_key", "200 api_key")
    /\ UNCHANGED <<accounts, ledger_entry, payouts, balance, pin_hash, transactions, lock, gateway,
                   credits, accepted>>

\* keys.py lines 71-80: the key by id, its owner, the expiry
rollover_api_key_read(h, user, key_id, expiry) ==
    /\ hs[h].pc = "idle"
    /\ IF key_id \notin DOMAIN api_keys \/ api_keys[key_id].user_id # user THEN
          Done(h, "rollover_api_key", "404 API Key not found")
       ELSE IF calculate_expiry(expiry).raises # "none" THEN
          Done(h, "rollover_api_key", ExpiryError(expiry))
       ELSE
          /\ response' = NoResponse
          /\ hs' = [hs EXCEPT ![h] =
                    [Idle EXCEPT !.op = "rollover_api_key", !.pc = "commit",
                                 !.user = user, !.key_id = key_id,
                                 !.expires_at = calculate_expiry(expiry).value]]
    /\ UNCHANGED <<accounts, api_keys, ledger_entry, payouts, balance, pin_hash, transactions, lock,
                   gateway, credits, accepted>>

\* keys.py lines 82-107: the new active key and the old one deactivated, committed
rollover_api_key_commit(h) ==
    /\ hs[h].op = "rollover_api_key"
    /\ hs[h].pc = "commit"
    /\ Len(api_keys) < MaxKeys
    /\ api_keys' = Append([api_keys EXCEPT ![hs[h].key_id].is_active = FALSE],
                          APIKey(hs[h].user, TRUE, hs[h].expires_at))
    /\ Done(h, "rollover_api_key", "200 Key rolled over successfully")
    /\ UNCHANGED <<accounts, ledger_entry, payouts, balance, pin_hash, transactions, lock, gateway,
                   credits, accepted>>

\* keys.py lines 135-142: the key by id, its owner, whether it is still active
revoke_api_key_read(h, user, key_id) ==
    /\ hs[h].pc = "idle"
    /\ IF key_id \notin DOMAIN api_keys \/ api_keys[key_id].user_id # user THEN
          Done(h, "revoke_api_key", "404 API Key not found")
       ELSE IF ~api_keys[key_id].is_active THEN
          Done(h, "revoke_api_key", "ignored: Key is already inactive")
       ELSE
          /\ response' = NoResponse
          /\ hs' = [hs EXCEPT ![h] =
                    [Idle EXCEPT !.op = "revoke_api_key", !.pc = "commit",
                                 !.user = user, !.key_id = key_id]]
    /\ UNCHANGED <<accounts, api_keys, ledger_entry, payouts, balance, pin_hash, transactions, lock,
                   gateway, credits, accepted>>

\* keys.py lines 144-150
revoke_api_key_commit(h) ==
    /\ hs[h].op = "revoke_api_key"
    /\ hs[h].pc = "commit"
    /\ api_keys' = [api_keys EXCEPT ![hs[h].key_id].is_active = FALSE]
    /\ Done(h, "revoke_api_key", "200 revoked")
    /\ UNCHANGED <<accounts, ledger_entry, payouts, balance, pin_hash, transactions, lock, gateway,
                   credits, accepted>>

\* ------------------------------------------------------ get_or_create_user
\* The e-mail addresses Google reports for the people who log in.
Emails == {"a@example.com", "b@example.com"}

\* user_service.py line 23: the strings secrets.choice can produce
CandidateNumbers == {TenDigits(d) : d \in 1 .. MaxUsers}

\* user_service.py lines 11-18: select(User).where(User.email == email).first()
get_or_create_user_select(h, email) ==
    /\ hs[h].pc = "idle"
    /\ IF \E u \in Users : User_email[u] = email THEN
          Done(h, "get_or_create_user", "existing user")
       ELSE
          response' = NoResponse /\ hs' = [hs EXCEPT ![h] =
                    [Idle EXCEPT !.op = "get_or_create_user", !.pc = "candidate",
                                 !.email = email]]
    /\ UNCHANGED <<accounts, api_keys, ledger_entry, payouts, balance, pin_hash, transactions, lock, gateway, credits, accepted>>

\* user_service.py lines 22-28: one turn of the loop, which ends with a candidate
\* no committed Wallet has
get_or_create_user_candidate(h, candidate) ==
    /\ hs[h].op = "get_or_create_user"
    /\ hs[h].pc = "candidate"
    /\ response' = NoResponse
    /\ IF \E w \in Wallets : Wallet_wallet_number[w] = candidate THEN
          UNCHANGED hs
       ELSE
          hs' = [hs EXCEPT ![h].pc = "commit", ![h].wallet_number = candidate]
    /\ UNCHANGED <<accounts, api_keys, ledger_entry, payouts, balance, pin_hash, transactions, lock, gateway, credits, accepted>>

IntegrityError_none(email, number) == FALSE

\* models.py lines 20, 34: User.email and Wallet.wallet_number are unique, so the
\* INSERT of a row whose value a committed row has raises IntegrityError
IntegrityError(email, number) ==
    \/ \E u \in Users : User_email[u] = email
    \/ \E w \in Wallets : Wallet_wallet_number[w] = number

\* user_service.py lines 30-39: INSERT of the User and of its Wallet in one
\* transaction; an IntegrityError leaves the call and rolls both back
get_or_create_user_commit(h) ==
    /\ hs[h].op = "get_or_create_user"
    /\ hs[h].pc = "commit"
    /\ IF IntegrityError(hs[h].email, hs[h].wallet_number) THEN
          /\ Done(h, "get_or_create_user", "500 IntegrityError")
          /\ UNCHANGED <<accounts, balance, pin_hash, lock>>
       ELSE
          /\ Len(User_email) < MaxUsers
          /\ User_email' = Append(User_email, hs[h].email)
          /\ pin_hash' = Append(pin_hash, NoPinHash)
          /\ Wallet_user_id' = Append(Wallet_user_id, Len(User_email) + 1)
          /\ Wallet_wallet_number' = Append(Wallet_wallet_number, hs[h].wallet_number)
          /\ balance' = Append(balance, 0)
          /\ lock' = Append(lock, 0)
          /\ Done(h, "get_or_create_user", "created")
    /\ UNCHANGED <<api_keys, ledger_entry, payouts, transactions, gateway, credits, accepted>>

\* ------------------------------------------------------------ scheduling
InFlight == {h \in Handlers : hs[h].pc # "idle"}

GatewayNext ==
    \/ \E u \in Uuids : gateway_charge_succeeds(u)
    \/ \E u \in Uuids : gateway_charge_fails(u)

\* The webhook deliveries `requests`, served by the handlers H.
WebhookNext(H, requests) ==
    \/ \E h \in H, r \in requests : paystack_webhook_receive(h, r[1], r[2])
    \/ \E h \in H : paystack_webhook_lock(h)
    \/ \E h \in H : paystack_webhook_commit(h)
    \/ \E h \in H : paystack_webhook_rollback(h)

\* The deposit flow served by the handlers H.
DepositNext(H) ==
    \/ \E h \in H, u \in Users, a \in RequestAmounts, ok \in BOOLEAN :
          initiate_deposit(h, u, a, ok)
    \/ WebhookNext(H, WebhookRequests)
    \/ \E h \in H, u \in Users, r \in References : get_deposit_status_read(h, u, r)
    \/ \E h \in H, g \in {"exception", "abandoned", "failed", "success"} :
          get_deposit_status_verify(h, g)
    \/ \E h \in H : get_deposit_status_commit(h)

PinNext(H) ==
    \/ \E h \in H, u \in Users, p \in Pins : set_pin_check(h, u, p)
    \/ \E h \in H : set_pin_commit(h)

\* Transfer requests of the amounts A with the PINs P, served by the handlers H.
TransferNext(H, A, P) ==
    \/ \E h \in H, u \in Users, n \in WalletNumbers, a \in A, p \in P :
          transfer_funds_check(h, u, n, a, p)
    \/ \E h \in H : transfer_funds_select_receiver(h)
    \/ \E h \in H : transfer_funds_commit(h)
    \/ \E h \in H : transfer_funds_commit_fails(h)

\* Withdrawal requests of the amounts A with the PINs P, served by the handlers H.
WithdrawNext(H, A, P) ==
    \/ \E h \in H, u \in Users, a \in A, p \in P :
          withdraw_funds_check(h, u, a, p)
    \/ \E h \in H : withdraw_funds_debit(h)
    \/ \E h \in H : withdraw_funds_refresh(h)
    \/ \E h \in H, ok \in BOOLEAN : withdraw_funds_recipient(h, ok)
    \/ \E h \in H, ok \in BOOLEAN : withdraw_funds_transfer(h, ok)

Next ==
    \/ GatewayNext
    \/ DepositNext(Handlers)
    \/ PinNext(Handlers)
    \/ TransferNext(Handlers, RequestAmounts, Pins)
    \/ WithdrawNext(Handlers, RequestAmounts, Pins)

\* Every user has set PIN 1.
InitPinned ==
    InitWith(InitBalance, [u \in DOMAIN InitBalance |-> get_pin_hash(1)], <<>>,
             [u \in Uuids |-> "none"])

\* Two users, each with PIN 1; the second has initiated a deposit, which the
\* customer has paid at the gateway.
InitFunded ==
    \E a \in 1 .. MaxAmount :
        InitWith(SubSeq(InitBalance, 1, 2), [v \in 1 .. 2 |-> get_pin_hash(1)],
                 <<Transaction(a, "deposit", "pending", DepositReference(1), wallet_of(2))>>,
                 [v \in Uuids |-> IF v = 1 THEN "success" ELSE "none"])

\* The whole service, its handlers running concurrently.
Spec == Init /\ [][Next]_vars

\* The deposit flow alone: initiation, the gateway, webhook deliveries and status
\* checks, handled concurrently.
SpecDeposit == Init /\ [][GatewayNext \/ DepositNext(Handlers)]_vars

\* The deposit flow with its requests handled one after another, each to its end.
SpecDepositSerial == Init /\ [][GatewayNext \/ DepositNext({1})]_vars

\* Transfers alone, handled concurrently.
SpecTransfer == InitPinned /\ [][TransferNext(Handlers, RequestAmounts, Pins)]_vars

\* Transfers handled one after another, each to its end.
SpecTransferSerial == InitPinned /\ [][TransferNext({1}, RequestAmounts, Pins)]_vars

\* The deliveries Paystack makes for the charges that succeeded.
Deliveries ==
    {r \in WebhookRequests :
        /\ r[1] = hmac_sha512(PAYSTACK_SECRET_KEY, r[2])
        /\ r[2] \in Genuine
        /\ r[2].json /\ r[2].event = "charge.success"
        /\ r[2].reference \in KnownReferences}

\* Deposits and transfers, handled one after another, so that a deposit is
\* initiated when Transactions of other references exist.
InitiateNext ==
    \/ \E u \in Users, a \in RequestAmounts, ok \in BOOLEAN : initiate_deposit(1, u, a, ok)
    \/ GatewayNext
    \/ WebhookNext({1}, Deliveries)
    \/ TransferNext({1}, 1 .. MaxAmount, {1})
SpecInitiateSerial == InitPinned /\ [][InitiateNext]_vars

\* Every handler that changes a balance, handled concurrently: Paystack's
\* deliveries, and transfers and withdrawals of positive amounts with the right PIN.
MutationsNext ==
    \/ WebhookNext(Handlers, Deliveries)
    \/ TransferNext(Handlers, 1 .. MaxAmount, {1})
    \/ WithdrawNext(Handlers, 1 .. MaxAmount, {1})
SpecMutations == InitFunded /\ [][MutationsNext]_vars

\* Withdrawals handled one after another, each to its end.
SpecWithdrawSerial == InitPinned /\ [][WithdrawNext({1}, RequestAmounts, Pins)]_vars

\* Setting PINs alone, handled concurrently.
SpecPin == Init /\ [][PinNext(Handlers)]_vars

\* Setting PINs and transfers, handled one after another.
SpecPinTransferSerial ==
    Init /\ [][PinNext({1}) \/ TransferNext({1}, RequestAmounts, Pins)]_vars

\* Setting PINs and withdrawals, handled concurrently.
SpecPinWithdraw ==
    Init /\ [][PinNext(Handlers) \/ WithdrawNext(Handlers, RequestAmounts, Pins)]_vars

\* The tables of up to MaxRows deposits the users have initiated, in any order
\* of the users, none paid yet.
InitHistory ==
    \E n \in 0 .. MaxRows :
        \E owner \in [1 .. n -> 1 .. 2] :
            InitWith(SubSeq(InitBalance, 1, 2), [v \in 1 .. 2 |-> NoPinHash],
                     [i \in 1 .. n |->
                        Transaction(i, "deposit", "pending", DepositReference(i), owner[i])],
                     [v \in 1 .. MaxRows |-> IF v <= n THEN "abandoned" ELSE "none"])

\* History queries alone, over every such table.
HistoryNext ==
    \E h \in Handlers, u \in Users, skip \in 0 .. MaxSkip, lim \in 1 .. MaxLimit :
        get_transactions(h, u, skip, lim)
SpecHistory == InitHistory /\ [][HistoryNext]_vars

\* Key creation with the expiries D, served by the handlers H for the users U.
CreateKeyNext(H, U, D) ==
    \/ \E h \in H, u \in U, d \in D : create_api_key_check(h, u, d)
    \/ \E h \in H : create_api_key_commit(h)

\* The API key endpoints served by the handlers H for the users U.
KeysNext(H, U, D) ==
    \/ CreateKeyNext(H, U, D)
    \/ \E h \in H, u \in U, k \in KeyIds, d \in D :
          rollover_api_key_read(h, u, k, d)
    \/ \E h \in H : rollover_api_key_commit(h)
    \/ \E h \in H, u \in U, k \in KeyIds : revoke_api_key_read(h, u, k)
    \/ \E h \in H : revoke_api_key_commit(h)

\* The API key endpoints alone, their requests handled one after another.
SpecKeysSerial == Init /\ [][KeysNext({1}, {1, 2}, {<<"1", "d">>, <<"1", "x">>})]_vars

\* One user creating keys with every duration string as the expiry.
SpecExpiry == Init /\ [][CreateKeyNext({1}, {1}, Durations)]_vars

\* Transfers of positive amounts with the right PIN, handled concurrently, the
\* flush of each commit seen one UPDATE at a time.
TransferLocksNext ==
    \/ TransferNext(Handlers, 1 .. MaxAmount, {1})
    \/ \E h \in Handlers : transfer_funds_flush(h)
SpecTransferLocks == InitPinned /\ [][TransferLocksNext]_vars

\* The steps by which the transfer h serves goes on.
TransferSteps(h) ==
    \/ transfer_funds_select_receiver(h)
    \/ transfer_funds_flush(h)
    \/ transfer_funds_commit(h)

\* The same, each handler running on whenever it can: a statement that is not
\* waiting for a lock is executed.
SpecTransferLocksFair ==
    SpecTransferLocks /\ \A h \in Handlers : WF_vars(TransferSteps(h))

\* Every flow that calls the gateway (deposit initiation, status check,
\* withdrawal) beside the webhook, which locks; requests handled one after another.
SpecGatewaySerial ==
    InitPinned /\ [][\/ GatewayNext
                     \/ DepositNext({1})
                     \/ WithdrawNext({1}, 1 .. MaxAmount, {1})]_vars

\* Onboarding served by the handlers H.
OnboardNext(H) ==
    \/ \E h \in H, e \in Emails : get_or_create_user_select(h, e)
    \/ \E h \in H, c \in CandidateNumbers : get_or_create_user_candidate(h, c)
    \/ \E h \in H : get_or_create_user_commit(h)

\* The service before anyone has logged in.
InitEmpty == InitWith(<<>>, <<>>, <<>>, [u \in Uuids |-> "none"])

\* Logins alone, handled concurrently, from the empty database.
SpecOnboard == InitEmpty /\ [][OnboardNext(Handlers)]_vars

\* ----------------------------------------------------------------- claims
\* The request is a charge.success body for a stored Transaction, signed by
\* Paystack with the shared secret.
VerifiedChargeSuccess(r) ==
    /\ r[1] = hmac_sha512(PAYSTACK_SECRET_KEY, r[2])
    /\ r[2].json
    /\ r[2].event = "charge.success"
    /\ r[2].reference \in KnownReferences

\* The step is one in which the idle handler h takes a request.
Receives(h) ==
    /\ hs[h].pc = "idle"
    /\ response'.handler = h \/ hs'[h].pc # "idle"

\* The sum of f over the set S of its arguments.
RECURSIVE Sum(_, _)
Sum(f, S) ==
    IF S = {} THEN 0
    ELSE LET x == CHOOSE y \in S : TRUE IN f[x] + Sum(f, S \ {x})

\* The signed amounts of the Transaction rows of wallet w, added up.
Net(w) ==
    Sum([i \in DOMAIN transactions |-> transactions[i].amount],
        {i \in DOMAIN transactions : transactions[i].wallet_id = w})

\* C1: deliveries of a verified charge.success webhook handled one after
\* another credit the reference at most once: the commit of the first one adds
\* the amount to the wallet and sets the Transaction to success, and every
\* delivery after the credit returns "ignored: Transaction already processed"
\* and changes neither a balance nor a Transaction.
C1_ReplayCreditsOnce ==
    [][/\ \A u \in Uuids : credits'[u] <= 1
       /\ \A h \in Handlers :
            (paystack_webhook_commit(h) /\ credits[hs[h].reference[2]] = 0) =>
               /\ balance' = [balance EXCEPT ![hs[h].wallet] = @ + hs[h].amount]
               /\ transactions'[TxnOf(hs[h].reference)].status = "success"
       /\ \A h \in Handlers :
            Receives(h) =>
               \A r \in WebhookRequests :
                  (/\ VerifiedChargeSuccess(r)
                   /\ credits[r[2].reference[2]] >= 1
                   /\ paystack_webhook_receive(h, r[1], r[2])) =>
                     /\ response'.result = "ignored: Transaction already processed"
                     /\ UNCHANGED <<balance, transactions, credits>>]_vars

\* A delivery was ignored as already processed after the one credit.
C1_Witness ==
    /\ response.op = "paystack_webhook"
    /\ response.result = "ignored: Transaction already processed"
    /\ \E u \in Uuids : credits[u] = 1

\* C2: with deliveries of the same charge.success webhook handled concurrently,
\* no reference is credited more than once.
C2_ConcurrentCreditsOnce ==
    \A u \in Uuids : credits[u] <= 1

\* C3: under concurrent transfers the balances add up to what they added up to
\* at the start, and each wallet holds its starting balance plus the credits
\* minus the debits of the transfers recorded as successful.
C3_TransfersConserve ==
    /\ Sum(balance, Wallets) = Sum(InitBalance, DOMAIN InitBalance)
    /\ \A w \in Wallets : balance[w] = InitBalance[w] + Net(w)

\* C4: a transfer handled with nothing interleaved that succeeds takes exactly
\* the amount from the sender's wallet, adds exactly the amount to the
\* recipient's, changes no other wallet and answers success.
C4_TransferMovesAmount ==
    [][\A h \in Handlers :
          transfer_funds_commit(h) =>
             /\ hs[h].amount > 0
             /\ hs[h].wallet # hs[h].receiver
             /\ balance' = [balance EXCEPT ![hs[h].wallet] = @ - hs[h].amount,
                                           ![hs[h].receiver] = @ + hs[h].amount]
             /\ response'.result = "success"]_vars

\* A transfer of 1 from the first wallet (2) to the third (0) has answered success.
C4_Witness ==
    /\ response.op = "transfer_funds"
    /\ response.result = "success"
    /\ Len(transactions) = 2
    /\ balance = <<1, 1, 1>>

\* C5: in every committed state under concurrent deposit confirmations,
\* transfers, withdrawal debits and withdrawal compensations, no balance is
\* negative.
C5_BalanceNonNegative ==
    \A w \in Wallets : balance[w] >= 0

\* A deposit was credited, a transfer committed, a withdrawal was debited and
\* compensated, and a wallet holds nothing.
C5_Witness ==
    /\ \E u \in Uuids : credits[u] >= 1
    /\ Rows("transfer") # {}
    /\ response.result = "502 Transfer failed at provider"
    /\ \E w \in Wallets : balance[w] = 0

\* The stored Transaction a webhook handler is confirming.
Confirming(h) == transactions[TxnOf(hs[h].reference)]

\* C6: a handler serving a verified charge.success webhook whose amount differs
\* from the amount recorded on the Transaction changes no balance, and when it
\* answers, the Transaction is failed and the answer is an error.
C6_MismatchNotCredited ==
    [][\A h \in Handlers :
          (/\ hs[h].op = "paystack_webhook"
           /\ hs[h].amount # Confirming(h).amount
           /\ hs'[h] # hs[h]) =>
             /\ balance' = balance
             /\ hs'[h].pc = "idle" =>
                  /\ transactions'[TxnOf(hs[h].reference)].status = "failed"
                  /\ response'.result # "success"]_vars

\* C7: the commit of a verified charge.success webhook for a pending deposit
\* whose amount equals the recorded amount sets that Transaction to success and
\* adds exactly the amount to the owning wallet as last committed; no other
\* wallet and no other Transaction changes.
C7_MatchingDepositCredited ==
    [][\A h \in Handlers :
          (/\ paystack_webhook_commit(h)
           /\ Confirming(h).status = "pending"
           /\ Confirming(h).transaction_type = "deposit"
           /\ hs[h].amount = Confirming(h).amount) =>
             /\ balance' = [balance EXCEPT ![Confirming(h).wallet_id] =
                                @ + Confirming(h).amount]
             /\ transactions' = [transactions EXCEPT
                                   ![TxnOf(hs[h].reference)].status = "success"]
             /\ response'.result = "success"]_vars

\* A deposit of the recorded amount was confirmed into a wallet that held
\* money, next to other Transaction rows.
C7_Witness ==
    /\ response.op = "paystack_webhook"
    /\ response.result = "success"
    /\ credits[1] = 1
    /\ transactions[1].status = "success"
    /\ Len(transactions) > 1
    /\ balance[transactions[1].wallet_id] > transactions[1].amount

\* C8: in every committed state a deposit Transaction is success exactly when
\* its wallet has been credited for it.
C8_SuccessIffCredited ==
    \A i \in Rows("deposit") :
        transactions[i].status = "success" <=> credits[transactions[i].reference[2]] >= 1

\* C9: a Transaction's status changes only while it is pending, and a deposit
\* is credited only while its Transaction is pending.
C9_OnlyPendingMoves ==
    [][\A i \in DOMAIN transactions :
          /\ transactions'[i].status # transactions[i].status =>
                transactions[i].status = "pending"
          /\ (/\ transactions[i].transaction_type = "deposit"
              /\ credits'[transactions[i].reference[2]] > credits[transactions[i].reference[2]]) =>
                transactions[i].status = "pending"]_vars

\* C10: a webhook request with no signature header, or with a header that is not
\* the HMAC-SHA-512 of the body under the shared secret, is answered 400 at once:
\* no row is locked, no balance and no Transaction changes.
C10_UnsignedRejected ==
    [][\A h \in Handlers :
          Receives(h) =>
             \A r \in WebhookRequests :
                (/\ \/ r[1] = NoSignature
                    \/ r[1] # hmac_sha512(PAYSTACK_SECRET_KEY, r[2])
                 /\ paystack_webhook_receive(h, r[1], r[2])) =>
                   /\ response'.result \in
                         {"400 Missing signature header", "400 Invalid signature"}
                   /\ hs'[h].pc = "idle"
                   /\ UNCHANGED <<balance, transactions, lock, credits>>]_vars

\* A request with a wrong signature was rejected while a paid deposit was
\* waiting for its confirmation.
C10_Witness ==
    /\ response.op = "paystack_webhook"
    /\ response.result = "400 Invalid signature"
    /\ \E i \in Rows("deposit") :
          /\ transactions[i].status = "pending"
          /\ gateway[transactions[i].reference[2]] = "success"
    /\ balance = InitBalance

\* The answers with which transfer_funds refuses a request.
TransferErrors ==
    {"400 Transaction PIN not set", "400 Invalid Transaction PIN.",
     "400 Amount must be positive", "400 Insufficient funds",
     "404 Recipient wallet not found", "400 Cannot transfer to yourself"}

\* C11: a transfer request with amount <= 0 or amount above the sender's
\* balance is refused when it is taken, and one whose wallet number matches no
\* wallet or the sender's own is refused when the recipient is looked up: the
\* answer is an error, no balance changes and no Transaction is created.
C11_InvalidTransferRejected ==
    [][\A h \in Handlers :
          /\ Receives(h) =>
                \A u \in Users, n \in WalletNumbers, a \in RequestAmounts, p \in Pins :
                   (/\ a <= 0 \/ a > balance[wallet_of(u)]
                    /\ transfer_funds_check(h, u, n, a, p)) =>
                      /\ hs'[h].pc = "idle"
                      /\ response'.result \in TransferErrors
                      /\ UNCHANGED <<balance, transactions>>
          /\ (/\ hs[h].op = "transfer_funds"
              /\ hs[h].pc = "receiver"
              /\ \/ hs[h].wallet_number \notin {wallet_number(w) : w \in Wallets}
                 \/ hs[h].wallet_number = wallet_number(hs[h].wallet)
              /\ hs'[h] # hs[h]) =>
                /\ hs'[h].pc = "idle"
                /\ response'.result \in TransferErrors
                /\ UNCHANGED <<balance, transactions>>]_vars

\* A transfer to the sender's own wallet was refused after another transfer
\* had moved money.
C11_Witness ==
    /\ response.op = "transfer_funds"
    /\ response.result = "400 Cannot transfer to yourself"
    /\ transactions # <<>>

\* The rows that are the credit leg of the debit leg transactions[i].
CreditLegs(i) ==
    {j \in DOMAIN transactions :
        /\ transactions[j].reference = CreditReference(transactions[i].reference)
        /\ transactions[j].transaction_type = "transfer"
        /\ transactions[j].status = "success"
        /\ transactions[j].amount = -transactions[i].amount}

\* The rows that are the debit leg of the credit leg transactions[j].
DebitLegs(j) ==
    {i \in DOMAIN transactions :
        /\ transactions[i].amount < 0
        /\ transactions[i].transaction_type = "transfer"
        /\ j \in CreditLegs(i)}

\* Every transfer row that debits has exactly one credit leg on another wallet,
\* and every transfer row that credits has exactly one debit leg.
LegsPaired ==
    \A i \in Rows("transfer") :
        IF transactions[i].amount < 0
        THEN /\ Cardinality(CreditLegs(i)) = 1
             /\ \A j \in CreditLegs(i) : transactions[j].wallet_id # transactions[i].wallet_id
        ELSE Cardinality(DebitLegs(i)) = 1

\* C12: the legs of the recorded transfers are paired in every committed
\* state, and the step in which a transfer leaves its commit either persists all
\* four writes (the sender's balance as debited, the recipient's as credited,
\* both rows) and answers success, or persists none and answers an error.
C12_TransferAtomic ==
    [][/\ LegsPaired'
       /\ \A h \in Handlers :
            (/\ hs[h].op = "transfer_funds"
             /\ hs[h].pc = "commit"
             /\ hs'[h] # hs[h]) =>
               \/ /\ response'.result = "success"
                  /\ Len(transactions') = Len(transactions) + 2
                  /\ SubSeq(transactions', 1, Len(transactions)) = transactions
                  /\ balance'[hs[h].wallet] = hs[h].wallet_balance - hs[h].amount
                  /\ balance'[hs[h].receiver] = hs[h].receiver_balance + hs[h].amount
                  /\ \A w \in Wallets \ {hs[h].wallet, hs[h].receiver} :
                        balance'[w] = balance[w]
               \/ /\ response'.result = "500 Internal Server Error"
                  /\ UNCHANGED <<balance, transactions>>]_vars

\* A transfer's commit failed after another transfer had committed: the table
\* holds the two legs of the one that committed.
C12_Witness ==
    /\ response.op = "transfer_funds"
    /\ response.result = "500 Internal Server Error"
    /\ Len(transactions) = 2
    /\ balance # InitBalance

\* The answers with which withdraw_funds reports a failed gateway step.
GatewayFailures ==
    {"500 Failed to register bank account", "502 Transfer failed at provider"}

\* C13: a withdrawal handled with nothing interleaved whose recipient
\* registration or payout initiation fails answers the error with the wallet back
\* at the balance it held before the attempt (line 322's original_balance), and
\* no step of the attempt creates a Transaction.
C13_FailedWithdrawalCompensated ==
    [][\A h \in Handlers :
          (hs[h].op = "withdraw_funds" /\ hs'[h] # hs[h]) =>
             /\ response'.result # "success" => transactions' = transactions
             /\ response'.result \in GatewayFailures =>
                  /\ balance'[hs[h].wallet] = hs[h].original_balance
                  /\ \A w \in Wallets \ {hs[h].wallet} : balance'[w] = balance[w]]_vars

\* A withdrawal failed at the payout and the balances are the initial ones.
C13_Witness ==
    /\ response.op = "withdraw_funds"
    /\ response.result = "502 Transfer failed at provider"
    /\ accepted >= 1
    /\ balance = InitBalance

\* The handler h serves a withdrawal whose debit is committed.
Debited(h) ==
    /\ hs[h].op = "withdraw_funds"
    /\ hs[h].pc \in {"refresh", "recipient", "transfer"}

\* C14: the step in which a withdrawal that has committed its debit ends either
\* records the pending withdrawal Transaction of the initiated payout, with
\* amount = -amount, or credits the full amount back to the wallet.
C14_DebitMatched ==
    [][\A h \in Handlers :
          (Debited(h) /\ hs'[h].pc = "idle") =>
             \/ /\ Len(payouts') = Len(payouts) + 1
                /\ Len(transactions') = Len(transactions) + 1
                /\ transactions'[Len(transactions')] =
                      Transaction(-hs[h].amount, "withdrawal", "pending",
                                  payouts'[Len(payouts')].reference, hs[h].wallet)
                /\ balance' = balance
             \/ /\ payouts' = payouts
                /\ transactions' = transactions
                /\ balance' = [balance EXCEPT ![hs[h].wallet] = @ + hs[h].amount]]_vars

\* C15: the compensating credit of a failed withdrawal adds the amount to the
\* balance the wallet holds when it is written, whatever other handlers have
\* committed since the debit, so that the failed withdrawal nets to zero.
C15_CompensationAddsToCurrent ==
    [][\A h \in Handlers :
          (Debited(h) /\ hs'[h].pc = "idle" /\ response'.result \in GatewayFailures) =>
             balance' = [balance EXCEPT ![hs[h].wallet] = @ + hs[h].amount]]_vars

\* C16: no wallet is debited twice from the same funds: what the transfers
\* recorded as successful have taken from a wallet never exceeds what the wallet
\* held at the start plus what the recorded transfers have brought it.
C16_NoDoubleSpend ==
    \A w \in Wallets : InitBalance[w] + Net(w) >= 0

\* C17: a withdrawal handled with nothing interleaved whose payout Paystack
\* accepts answers success, leaves the wallet at its balance before the request
\* less the amount, and appends exactly one Transaction: amount = -amount,
\* type withdrawal, status pending, the caller's wallet, the reference sent to
\* the gateway.
C17_WithdrawalRecorded ==
    [][\A h \in Handlers :
          (Debited(h) /\ Len(payouts') = Len(payouts) + 1) =>
             /\ response' = [handler |-> h, op |-> "withdraw_funds", result |-> "success"]
             /\ balance' = balance
             /\ balance'[hs[h].wallet] = hs[h].original_balance - hs[h].amount
             /\ transactions' = Append(transactions,
                    Transaction(-hs[h].amount, "withdrawal", "pending",
                                payouts'[Len(payouts')].reference, hs[h].wallet))]_vars

\* The answers with which withdraw_funds refuses a request before its debit.
WithdrawErrors ==
    {"422 amount must be greater than 0", "400 PIN not set", "401 Invalid PIN",
     "400 Insufficient funds"}

\* C18: a withdrawal request of a user without a PIN, with a PIN that does not
\* match, or for more than the wallet holds is answered with an error in the
\* step that receives it: the handler ends before any gateway call, no payout
\* is sent, no balance changes and no Transaction is created.
C18_InvalidWithdrawalRejected ==
    [][\A h \in Handlers :
          (hs[h].pc = "idle" /\ "withdraw_funds" \in {response'.op, hs'[h].op}) =>
             \A u \in Users, a \in RequestAmounts, p \in Pins :
                (/\ \/ pin_hash[u] = NoPinHash
                    \/ pin_hash[u] # get_pin_hash(p)
                    \/ a > balance[wallet_of(u)]
                 /\ withdraw_funds_check(h, u, a, p)) =>
                   /\ response'.handler = h
                   /\ response'.result \in WithdrawErrors
                   /\ hs'[h].pc = "idle"
                   /\ balance' = balance
                   /\ transactions' = transactions
                   /\ payouts' = payouts]_vars

\* A withdrawal was refused for its PIN after another withdrawal of the same
\* service had passed the checks and debited.
C18_Witness ==
    /\ response.op = "withdraw_funds"
    /\ response.result = "401 Invalid PIN"
    /\ accepted > 0

C20_PinSetOnce ==
    [][\A u \in Users : pin_hash[u] # NoPinHash => pin_hash'[u] = pin_hash[u]]_vars

\* C21: no two rows of the Transaction table carry the same reference, the
\* "-credit" references of the receiving legs included.
C21_ReferencesUnique ==
    \A i, j \in DOMAIN transactions :
        transactions[i].reference = transactions[j].reference => i = j

\* The table holds a deposit and the two legs of two transfers.
C21_Witness ==
    /\ Rows("deposit") # {}
    /\ Cardinality(Rows("transfer")) >= 4

\* C22: a webhook request whose signature is the HMAC of its body, whose body
\* parses and whose event is not charge.success is answered "ignored", whatever
\* reference and amount it names: no row is locked, no balance and no
\* Transaction changes.
C22_OtherEventsIgnored ==
    [][\A h \in Handlers :
          Receives(h) =>
             \A r \in WebhookRequests :
                (/\ r[1] = hmac_sha512(PAYSTACK_SECRET_KEY, r[2])
                 /\ r[2].json
                 /\ r[2].event # "charge.success"
                 /\ paystack_webhook_receive(h, r[1], r[2])) =>
                   /\ response'.result = "ignored: Event type not monitored"
                   /\ hs'[h].pc = "idle"
                   /\ UNCHANGED <<balance, transactions, lock, credits>>]_vars

\* An event of another type was ignored while a paid deposit, which its body
\* could name, was waiting for its confirmation.
C22_Witness ==
    /\ response.op = "paystack_webhook"
    /\ response.result = "ignored: Event type not monitored"
    /\ \E i \in Rows("deposit") :
          /\ transactions[i].status = "pending"
          /\ gateway[transactions[i].reference[2]] = "success"
    /\ balance = InitBalance

Min(a, b) == IF a <= b THEN a ELSE b
Max(a, b) == IF a >= b THEN a ELSE b

\* The rows of wallet w, and how many rows of the wallet are newer than row i.
RowsOf(w) == {i \in DOMAIN transactions : transactions[i].wallet_id = w}
Newer(i) == Cardinality({j \in RowsOf(transactions[i].wallet_id) : j > i})

\* C23: the history query of a user whose wallet holds N rows, with skip s and
\* limit l, returns min(l, max(0, N - s)) records; the k-th of them is the row
\* of the caller's wallet that has exactly s + k - 1 newer rows of that wallet
\* (so they are the caller's, newest first, ranked s+1 .. s+l); the query
\* changes nothing in the database.
C23_HistoryPage ==
    [][\A h \in Handlers, u \in Users, s \in 0 .. MaxSkip, l \in 1 .. MaxLimit :
          get_transactions(h, u, s, l) =>
             LET page == response'.result
                 N == Cardinality(RowsOf(wallet_of(u)))
             IN  /\ Len(page) = Min(l, Max(0, N - s))
                 /\ \A k \in 1 .. Len(page) :
                       \E i \in RowsOf(wallet_of(u)) :
                          /\ page[k] = transactions[i]
                          /\ Newer(i) = s + k - 1
                 /\ UNCHANGED <<balance, pin_hash, transactions, lock, gateway, payouts>>]_vars

\* A query past the first page returned a short last page: one record, the
\* oldest of a wallet holding three rows, with the other wallet's row between them.
C23_Witness ==
    /\ response.op = "get_transactions"
    /\ Len(response.result) = 1
    /\ Len(transactions) = 4
    /\ Cardinality(RowsOf(1)) = 3
    /\ transactions[2].wallet_id = 2
    /\ response.result[1] = transactions[1]

\* services/ledger.py lines 6-15: select(func.sum(LedgerEntry.amount)) over the
\* wallet's entries; the sum over no row is NULL, returned as 0
get_current_balance(wallet_id) ==
    LET entries == {i \in DOMAIN ledger_entry : ledger_entry[i].wallet_id = wallet_id}
    IN  IF entries = {} THEN 0
        ELSE Sum([i \in DOMAIN ledger_entry |-> ledger_entry[i].amount], entries)

\* C24: after any deposit confirmations, what each wallet's cached balance has
\* gained over the balance it started with is the sum of the amounts of its
\* ledger entries, as LedgerService.get_current_balance computes it.
C24_BalanceIsLedgerSum ==
    \A w \in Wallets : balance[w] - InitBalance[w] = get_current_balance(w)

\* C25: after any sequence of create, rollover and revoke requests, no user has
\* more than five active API keys.
C25_AtMostFiveActive ==
    \A u \in Users : Cardinality(active_keys(u)) <= MaxActiveKeys

\* C26: whatever duration string a key creation gives as its expiry, the call
\* of calculate_expiry returns a datetime or raises ValueError, so the endpoint
\* answers the request with 400 or goes on to store the key; it never ends
\* with another exception.
C26_ExpiryRejectedNotCrashed ==
    [][\A h \in Handlers, d \in Durations :
          (hs[h].pc = "idle" /\ create_api_key_check(h, 1, d)) =>
             /\ calculate_expiry(d).raises \in {"none", "ValueError"}
             /\ response'.result # "500 Internal Server Error"]_vars

\* C27: every step that changes the balance of a wallet is taken while a
\* handler holds the row lock of that wallet.
C27_MutationsHoldRowLock ==
    [][\A w \in Wallets : balance'[w] # balance[w] => lock[w] \in Handlers]_vars

\* The transfers of h and g cross: each sends to the wallet the other sends from.
Crossing(h, g) ==
    /\ h # g
    /\ hs[h].op = "transfer_funds" /\ hs[h].pc = "commit"
    /\ hs[g].op = "transfer_funds" /\ hs[g].pc = "commit"
    /\ hs[h].wallet = hs[g].receiver
    /\ hs[h].receiver = hs[g].wallet

C29_NoGatewayCallUnderLock ==
    [][\A h \in Handlers :
          /\ (Debited(h) /\ hs[h].pc # "refresh" /\ hs'[h] # hs[h]) =>
                /\ \A w \in Wallets : lock[w] # h
                /\ balance[hs[h].wallet] = hs[h].original_balance - hs[h].amount
                /\ balance[hs[h].wallet] = hs[h].wallet_balance
          /\ (hs[h].op = "get_deposit_status" /\ hs[h].pc = "verify" /\ hs'[h] # hs[h]) =>
                /\ \A w \in Wallets : lock[w] # h
                /\ transactions[TxnOf(hs[h].reference)].status = "pending"
          /\ (hs[h].pc = "idle" /\ response'.handler = h
                /\ response'.op = "initiate_deposit") =>
                /\ \A w \in Wallets : lock[w] # h
                /\ response'.result = "500 Payment initialization failed" =>
                      transactions' = transactions]_vars

\* A withdrawal is between its two gateway calls, its debit committed, while a
\* deposit is waiting in the table.
C29_Witness ==
    \E h \in Handlers :
        /\ hs[h].op = "withdraw_funds"
        /\ hs[h].pc = "transfer"
        /\ balance[hs[h].wallet] = hs[h].original_balance - hs[h].amount
        /\ Rows("deposit") # {}

\* The rows of wallet w that count towards its balance: those with status
\* success, and the pending withdrawals.
Counted(w) ==
    {i \in DOMAIN transactions :
        /\ transactions[i].wallet_id = w
        /\ \/ transactions[i].status = "success"
           \/ /\ transactions[i].status = "pending"
              /\ transactions[i].transaction_type = "withdrawal"}

\* C30: whenever no withdrawal is between its debit and its last step, each
\* wallet holds its starting balance plus the amounts of its successful
\* Transactions plus the (negative) amounts of its pending withdrawals.
C30_BalanceIsSettledSum ==
    (\A h \in Handlers : ~Debited(h)) =>
        \A w \in Wallets :
            balance[w] = InitBalance[w]
                         + Sum([i \in DOMAIN transactions |-> transactions[i].amount],
                               Counted(w))

\* C31: the amount Paystack is asked to pay out for a withdrawal is the amount
\* debited from the wallet, in the same unit, with no scaling in between.
C31_PayoutEqualsDebit ==
    [][\A h \in Handlers :
          (Debited(h) /\ Len(payouts') = Len(payouts) + 1) =>
             payouts'[Len(payouts')].amount = hs[h].amount]_vars

\* The step is one of a deposit status check served by handler h.
StatusCheckStep(h) ==
    \/ hs'[h].op = "get_deposit_status" /\ hs'[h] # hs[h]
    \/ /\ response'.op = "get_deposit_status"
       /\ response'.handler = h
       /\ hs[h].op = "get_deposit_status" \/ hs[h].pc = "idle"

\* C32: no step of a deposit status check changes a wallet balance; a check goes
\* on to write only when the gateway reports failed, reversed or abandoned; and
\* the only change a check makes to the Transactions is to set the status of a
\* pending Transaction to failed, so that a Transaction that is not pending is
\* left as it is.
C32_StatusCheckFrame ==
    [][\A h \in Handlers :
          StatusCheckStep(h) =>
             /\ balance' = balance
             /\ (hs[h].pc = "verify" /\ hs'[h].pc = "commit") =>
                   MarksFailed(gateway[hs[h].reference[2]])
             /\ transactions' # transactions =>
                   \E i \in DOMAIN transactions :
                      /\ transactions[i].reference = hs[h].reference
                      /\ transactions[i].status = "pending"
                      /\ transactions' = [transactions EXCEPT ![i].status = "failed"]]_vars

\* C33: a deposit initiation never changes a balance; with amount <= 0, or when
\* the gateway initialisation fails, it creates no Transaction; otherwise it
\* appends exactly one Transaction, a pending deposit of the requested amount on
\* the caller's wallet under a reference no Transaction had before; and every
\* charge the gateway has initialised has a Transaction with its reference.
C33_InitiationCreatesPending ==
    [][/\ \A h \in Handlers :
             (hs[h].pc = "idle" /\ response'.op = "initiate_deposit"
                                /\ response'.handler = h) =>
                /\ balance' = balance
                /\ \A u \in Users, a \in RequestAmounts, ok \in BOOLEAN :
                      initiate_deposit(h, u, a, ok) =>
                         IF a <= 0 \/ ~ok THEN
                            transactions' = transactions /\ gateway' = gateway
                         ELSE
                            /\ Len(transactions') = Len(transactions) + 1
                            /\ SubSeq(transactions', 1, Len(transactions)) = transactions
                            /\ LET t == transactions'[Len(transactions')] IN
                                  /\ t.transaction_type = "deposit"
                                  /\ t.status = "pending"
                                  /\ t.amount = a
                                  /\ t.wallet_id = wallet_of(u)
                                  /\ \A i \in DOMAIN transactions :
                                        transactions[i].reference # t.reference
                                  /\ gateway[t.reference[2]] = "none"
                                  /\ gateway'[t.reference[2]] # "none"
       /\ \A v \in Uuids :
             gateway'[v] # "none" =>
                \E i \in DOMAIN transactions' : transactions'[i].reference = <<"", v, "">>]_vars

\* A deposit has just been initiated after a transfer was recorded: the table
\* ends with its pending row, whose reference no earlier row has.
C33_Witness ==
    /\ response.op = "initiate_deposit"
    /\ response.result = "200 authorization_url"
    /\ Len(transactions) >= 3
    /\ transactions[1].transaction_type = "transfer"
    /\ transactions[Len(transactions)].transaction_type = "deposit"
    /\ transactions[Len(transactions)].status = "pending"
    /\ transactions[Len(transactions)].amount > 0

\* C34: no step removes a Transaction or changes the amount, the type, the
\* reference or the owning wallet of an existing Transaction; the status is the
\* only field of an existing Transaction a step may change.
C34_OnlyStatusChanges ==
    [][\A i \in DOMAIN transactions :
          /\ i \in DOMAIN transactions'
          /\ transactions'[i].amount = transactions[i].amount
          /\ transactions'[i].transaction_type = transactions[i].transaction_type
          /\ transactions'[i].reference = transactions[i].reference
          /\ transactions'[i].wallet_id = transactions[i].wallet_id]_vars

\* The webhook has confirmed a deposit with a paid amount other than the
\* Transaction's: the wallet holds the paid amount more and the Transaction,
\* now success, still has the amount it was created with.
C34_Witness ==
    /\ response.op = "paystack_webhook"
    /\ response.result = "success"
    /\ \E i \in DOMAIN transactions :
          /\ transactions[i].status = "success"
          /\ balance[transactions[i].wallet_id] #
                InitBalance[transactions[i].wallet_id] + transactions[i].amount

\* C35: onboarding keeps users and wallets one-to-one. A call for an e-mail
\* address a user already has returns that user and creates nothing; a call that
\* creates a user creates, in the same step, exactly one wallet of that user,
\* with balance 0 and a wallet number of ten digits that no other wallet has;
\* no other step creates a user or a wallet; and after every step, concurrent
\* calls for one address included, every user has exactly one wallet, every
\* wallet has a user, and no two users share an address or two wallets a number.
C35_OnboardingOneToOne ==
    [][/\ \A h \in Handlers, e \in Emails :
             (/\ hs[h].pc = "idle"
              /\ \E u \in DOMAIN User_email : User_email[u] = e
              /\ get_or_create_user_select(h, e)) =>
                /\ response'.result = "existing user"
                /\ accounts' = accounts /\ balance' = balance
       /\ IF response'.op = "get_or_create_user" /\ response'.result = "created" THEN
             LET h == response'.handler
                 u == Len(User_email) + 1
                 w == Len(balance) + 1
             IN /\ \A v \in DOMAIN User_email : User_email[v] # hs[h].email
                /\ User_email' = Append(User_email, hs[h].email)
                /\ Wallet_user_id' = Append(Wallet_user_id, u)
                /\ balance' = Append(balance, 0)
                /\ DOMAIN Wallet_wallet_number' = 1 .. w
                /\ \A x \in DOMAIN Wallet_wallet_number :
                      Wallet_wallet_number'[x] = Wallet_wallet_number[x]
                /\ Len(Wallet_wallet_number'[w]) = 10
                /\ \A k \in 1 .. 10 : Wallet_wallet_number'[w][k] \in 0 .. 9
                /\ \A x \in DOMAIN Wallet_wallet_number :
                      Wallet_wallet_number[x] # Wallet_wallet_number'[w]
          ELSE accounts' = accounts /\ balance' = balance
       /\ \A u \in DOMAIN User_email' :
             Cardinality({w \in DOMAIN Wallet_user_id' : Wallet_user_id'[w] = u}) = 1
       /\ \A w \in DOMAIN Wallet_user_id' : Wallet_user_id'[w] \in DOMAIN User_email'
       /\ DOMAIN Wallet_wallet_number' = DOMAIN Wallet_user_id'
       /\ DOMAIN balance' = DOMAIN Wallet_user_id'
       /\ \A u, v \in DOMAIN User_email' : User_email'[u] = User_email'[v] => u = v
       /\ \A w, x \in DOMAIN Wallet_wallet_number' :
             Wallet_wallet_number'[w] = Wallet_wallet_number'[x] => w = x]_vars

\* A call that ran concurrently with another has just failed on a unique
\* constraint, and two users are onboarded, with one wallet each and different
\* wallet numbers.
C35_Witness ==
    /\ response.op = "get_or_create_user"
    /\ response.result = "500 IntegrityError"
    /\ Len(User_email) = 2
    /\ Len(Wallet_user_id) = 2
    /\ Wallet_wallet_number[1] # Wallet_wallet_number[2]
====
